---- MODULE Spec2Model ----
(***************************************************************************)
(* Shift calculator of the Protea roster (src/src/supabaseClient.ts):      *)
(* isStaffWorking, calculateShiftState and getShiftTimes.                  *)
(*                                                                         *)
(* Representation.                                                         *)
(*  - A date string 'YYYY-MM-DD' is the tuple <<y, m, d>> of the numbers   *)
(*    that split('-').map(Number) extracts from it.                        *)
(*  - A JavaScript object with optional fields is a record that has the    *)
(*    field exactly when the object has it (DOMAIN tells which).           *)
(*  - Date.getTime() is counted in minutes instead of milliseconds: every  *)
(*    local midnight and every zone offset of the model is a whole minute, *)
(*    so floor(diffTime / one day) is the same number in both units.       *)
(*  - The time zone of the browser is the variable tz, fixed by Init.      *)
(*  - supabase is TRUE when the exported client exists, FALSE when it is   *)
(*    undefined.                                                           *)
(***************************************************************************)
EXTENDS Integers, Sequences, FiniteSets, TLC

VARIABLES supabase, tz, staff, day, ret,
          isAdminLoggedIn, isAdminOpen, selectedShift,
          stored, db, saves, trail,
          localStaff, isAdding, isEditing, editForm, hasUnsavedChanges,
          isSaving, clock,
          staffRef, localRef, reading, mounted

\* App: the login flag, the admin modal flag; RosterGrid: the shift shown
gridVars == <<isAdminLoggedIn, isAdminOpen, selectedShift>>

\* localStorage 'protea_staff_data', the backend staff table, the calls of
\* updateStaffData; trail is the history of the clicks on one cell
storeVars == <<stored, db, saves>>

\* the state of AdminModal, and the clock that Date.now() reads
modalVars == <<localStaff, localRef, isAdding, isEditing, editForm,
               hasUnsavedChanges, isSaving, clock>>

\* staffRef and localRef tell which positions of staff and of localStaff
\* hold one and the same object: position i holds the object that first
\* appears at position staffRef[i]. reading holds what the FileReaders of
\* handleImport are about to deliver. mounted is FALSE once a render has
\* thrown and React has unmounted the tree.
appVars == <<gridVars, storeVars, trail, modalVars, staffRef, reading,
             mounted>>

vars == <<supabase, tz, staff, day, ret, appVars>>

----------------------------------------------------------------------------
(* Bounds of the model *)

MaxPatternOn == 5
MaxPatternOff == 4
MaxDayOffset == 100
MaxOverrides == 2
MaxSaves == 3
MaxInFlight == 2
MaxClock == 2
MaxAdminSaves == 1
MaxEffort == 3

----------------------------------------------------------------------------
(* Calendar and local time: what new Date(y, m - 1, d).getTime() returns *)

MinutesPerDay == 1440

\* days from 1970-01-01 to the civil date y-m-d (proleptic Gregorian)
DaysFromCivil(y, m, d) ==
    LET yy  == IF m <= 2 THEN y - 1 ELSE y
        era == yy \div 400
        yoe == yy - era * 400
        mp  == (m + 9) % 12
        doy == (153 * mp + 2) \div 5 + d - 1
        doe == yoe * 365 + yoe \div 4 - yoe \div 100 + doy
    IN  era * 146097 + doe - 719468

DayNumber(dateStr) == DaysFromCivil(dateStr[1], dateStr[2], dateStr[3])

IsLeapYear(y) == (y % 4 = 0 /\ y % 100 /= 0) \/ y % 400 = 0

DaysInMonth(y, m) ==
    IF m = 2 THEN (IF IsLeapYear(y) THEN 29 ELSE 28)
    ELSE IF m \in {4, 6, 9, 11} THEN 30 ELSE 31

\* d.setDate(d.getDate() + 1): the next civil date
NextDate(dateStr) ==
    IF dateStr[3] < DaysInMonth(dateStr[1], dateStr[2])
    THEN <<dateStr[1], dateStr[2], dateStr[3] + 1>>
    ELSE IF dateStr[2] < 12 THEN <<dateStr[1], dateStr[2] + 1, 1>>
    ELSE <<dateStr[1] + 1, 1, 1>>

\* d.setDate(current.getDate() + i)
RECURSIVE AddDays(_, _)
AddDays(dateStr, i) ==
    IF i = 0 THEN dateStr ELSE AddDays(NextDate(dateStr), i - 1)

\* the fullDateStr of the columns of generateDateRange(startDate, days)
generateDateRange(startDate, days) ==
    [k \in 1..days |-> AddDays(startDate, k - 1)]

\* the zones the browser may run in
TimeZones == {"UTC", "Africa/Johannesburg", "America/New_York"}

\* standard offset from UTC, minutes east
StdOffset(zone) ==
    CASE zone = "UTC" -> 0
      [] zone = "Africa/Johannesburg" -> 120
      [] zone = "America/New_York" -> -300

\* daylight-saving periods of a zone: <<day of the spring change, day of the
\* autumn change>>; both changes happen at 02:00 local time, so the local
\* midnight of a date D is on summer time iff spring < D <= autumn
DstPeriods(zone) ==
    IF zone = "America/New_York"
    THEN {<<DaysFromCivil(2023, 3, 12), DaysFromCivil(2023, 11, 5)>>,
          <<DaysFromCivil(2024, 3, 10), DaysFromCivil(2024, 11, 3)>>}
    ELSE {}

DstShift == 60

\* offset from UTC in force at the local midnight of dateStr
UtcOffset(zone, dateStr) ==
    LET n == DayNumber(dateStr)
    IN  IF \E p \in DstPeriods(zone) : p[1] < n /\ n <= p[2]
        THEN StdOffset(zone) + DstShift
        ELSE StdOffset(zone)

\* new Date(y, m - 1, d).getTime(), in minutes since the epoch
LocalMidnight(zone, dateStr) ==
    DayNumber(dateStr) * MinutesPerDay - UtcOffset(zone, dateStr)

----------------------------------------------------------------------------
(* JavaScript arithmetic *)

\* a % b of JavaScript for integers, b > 0: the sign follows the dividend
JsRem(a, b) == IF a >= 0 THEN a % b ELSE -((-a) % b)

NaN == "NaN"

----------------------------------------------------------------------------
(* isStaffWorking *)

\* Math.floor((target.getTime() - cycleStart.getTime()) / one day)
DiffDays(person, targetDateStr) ==
    LET cycleStart == LocalMidnight(tz, person.cycleStartDate)
        target     == LocalMidnight(tz, targetDateStr)
        diffTime   == target - cycleStart
    IN  diffTime \div MinutesPerDay

\* variant: the remainder taken once, without the normalisation
DayInCycle_NoNormalise(person, targetDateStr) ==
    LET diffDays         == DiffDays(person, targetDateStr)
        totalCycleLength == person.patternOn + person.patternOff
    IN  IF totalCycleLength = 0 THEN NaN
        ELSE JsRem(diffDays, totalCycleLength)

\* ((diffDays % totalCycleLength) + totalCycleLength) % totalCycleLength;
\* NaN when totalCycleLength is 0
DayInCycle(person, targetDateStr) ==
    LET diffDays         == DiffDays(person, targetDateStr)
        totalCycleLength == person.patternOn + person.patternOff
    IN  IF totalCycleLength = 0 THEN NaN
        ELSE JsRem(JsRem(diffDays, totalCycleLength) + totalCycleLength,
                   totalCycleLength)

\* staff.patternOn or staff.patternOff in + and <: the number; 0 for null
\* (the field is named in nulls)
PatternNumber(person, f) == IF f \in DOMAIN person THEN person[f] ELSE 0

\* staff.patternOn or staff.patternOff is undefined: the sum is NaN
PatternUndefined(person) ==
    \E f \in {"patternOn", "patternOff"} :
        /\ f \notin DOMAIN person
        /\ ~("nulls" \in DOMAIN person /\ f \in person.nulls)

\* dayInCycle < staff.patternOn; NaN < patternOn is false
isStaffWorking(person, targetDateStr) ==
    LET p == [cycleStartDate |-> person.cycleStartDate,
              patternOn      |-> PatternNumber(person, "patternOn"),
              patternOff     |-> PatternNumber(person, "patternOff")]
    IN  IF PatternUndefined(person) THEN FALSE
        ELSE IF p.patternOn + p.patternOff = 0 THEN FALSE
        ELSE DayInCycle(p, targetDateStr) < p.patternOn

----------------------------------------------------------------------------
(* calculateShiftState and getShiftTimes *)

\* the boolean field o.f is truthy: present and true
TruthyFlag(o, f) == f \in DOMAIN o /\ o[f] = TRUE

\* the string field o.f is truthy: present and not the empty string
TruthyString(o, f) == f \in DOMAIN o /\ o[f] /= ""

\* variant: the last entry of the date is taken
FindOverride_LastMatch(overrides, dateStr) ==
    IF \E i \in 1..Len(overrides) : overrides[i].date = dateStr
    THEN CHOOSE i \in 1..Len(overrides) :
            /\ overrides[i].date = dateStr
            /\ \A j \in (i + 1)..Len(overrides) : overrides[j].date /= dateStr
    ELSE 0

\* overrides.findIndex(o => o.date === dateStr), counted from 1; 0 when no
\* entry has the date (find returns undefined)
FindOverride(overrides, dateStr) ==
    IF \E i \in 1..Len(overrides) : overrides[i].date = dateStr
    THEN CHOOSE i \in 1..Len(overrides) :
            /\ overrides[i].date = dateStr
            /\ \A j \in 1..(i - 1) : overrides[j].date /= dateStr
    ELSE 0

ShiftState(w, t, v, l) ==
    [isWorking |-> w, shiftType |-> t, visualType |-> v, label |-> l]

\* variant: the shift type of the override is looked at before its day-off flag
calculateShiftState_ShiftTypeFirst(person, fullDateStr) ==
    LET idx == FindOverride(person.overrides, fullDateStr)
    IN  IF idx > 0 /\ TruthyString(person.overrides[idx], "shiftType")
        THEN IF person.overrides[idx].shiftType = "Half"
             THEN ShiftState(TRUE, "Half", "Hollow", "Half Shift (Manual)")
             ELSE ShiftState(TRUE, "Normal", "Solid", "Normal Shift (Manual)")
        ELSE IF idx > 0 /\ TruthyFlag(person.overrides[idx], "isDayOff")
        THEN ShiftState(FALSE, "Off", "Dash", "Day Off (Manual)")
        ELSE IF ~isStaffWorking(person, fullDateStr)
        THEN ShiftState(FALSE, "Off", "Dash", "Off")
        ELSE ShiftState(TRUE, "Normal", "Solid", "Normal Shift")

\* variant: a shift type other than Half is returned as the override has it
calculateShiftState_RawShiftType(person, fullDateStr) ==
    LET idx == FindOverride(person.overrides, fullDateStr)
    IN  IF idx > 0 /\ TruthyFlag(person.overrides[idx], "isDayOff")
        THEN ShiftState(FALSE, "Off", "Dash", "Day Off (Manual)")
        ELSE IF idx > 0 /\ TruthyString(person.overrides[idx], "shiftType")
        THEN IF person.overrides[idx].shiftType = "Half"
             THEN ShiftState(TRUE, "Half", "Hollow", "Half Shift (Manual)")
             ELSE ShiftState(TRUE, person.overrides[idx].shiftType, "Solid",
                             "Normal Shift (Manual)")
        ELSE IF ~isStaffWorking(person, fullDateStr)
        THEN ShiftState(FALSE, "Off", "Dash", "Off")
        ELSE ShiftState(TRUE, "Normal", "Solid", "Normal Shift")

\* variant: a pattern working day takes the member's default shift type
calculateShiftState_DefaultShiftType(person, fullDateStr) ==
    LET idx == FindOverride(person.overrides, fullDateStr)
    IN  IF idx > 0 /\ TruthyFlag(person.overrides[idx], "isDayOff")
        THEN ShiftState(FALSE, "Off", "Dash", "Day Off (Manual)")
        ELSE IF idx > 0 /\ TruthyString(person.overrides[idx], "shiftType")
        THEN IF person.overrides[idx].shiftType = "Half"
             THEN ShiftState(TRUE, "Half", "Hollow", "Half Shift (Manual)")
             ELSE ShiftState(TRUE, "Normal", "Solid", "Normal Shift (Manual)")
        ELSE IF ~isStaffWorking(person, fullDateStr)
        THEN ShiftState(FALSE, "Off", "Dash", "Off")
        ELSE IF person.shiftType = "Half"
        THEN ShiftState(TRUE, "Half", "Hollow", "Half Shift")
        ELSE ShiftState(TRUE, "Normal", "Solid", "Normal Shift")

\* variant: a pattern off-day is decided before the shift type of the override
calculateShiftState_PatternBeforeShiftType(person, fullDateStr) ==
    LET idx == FindOverride(person.overrides, fullDateStr)
    IN  IF idx > 0 /\ TruthyFlag(person.overrides[idx], "isDayOff")
        THEN ShiftState(FALSE, "Off", "Dash", "Day Off (Manual)")
        ELSE IF ~isStaffWorking(person, fullDateStr)
        THEN ShiftState(FALSE, "Off", "Dash", "Off")
        ELSE IF idx > 0 /\ TruthyString(person.overrides[idx], "shiftType")
        THEN IF person.overrides[idx].shiftType = "Half"
             THEN ShiftState(TRUE, "Half", "Hollow", "Half Shift (Manual)")
             ELSE ShiftState(TRUE, "Normal", "Solid", "Normal Shift (Manual)")
        ELSE ShiftState(TRUE, "Normal", "Solid", "Normal Shift")

calculateShiftState(person, fullDateStr) ==
    LET idx == FindOverride(person.overrides, fullDateStr)
    IN  IF idx > 0 /\ TruthyFlag(person.overrides[idx], "isDayOff")
        THEN ShiftState(FALSE, "Off", "Dash", "Day Off (Manual)")
        ELSE IF idx > 0 /\ TruthyString(person.overrides[idx], "shiftType")
        THEN IF person.overrides[idx].shiftType = "Half"
             THEN ShiftState(TRUE, "Half", "Hollow", "Half Shift (Manual)")
             ELSE ShiftState(TRUE, "Normal", "Solid", "Normal Shift (Manual)")
        ELSE IF ~isStaffWorking(person, fullDateStr)
        THEN ShiftState(FALSE, "Off", "Dash", "Off")
        ELSE ShiftState(TRUE, "Normal", "Solid", "Normal Shift")

\* variant: one of the two times is enough for the override to be used
getShiftTimes_EitherTime(person, dateStr, shiftType) ==
    LET idx == FindOverride(person.overrides, dateStr)
        o   == person.overrides[idx]
    IN  IF /\ idx > 0
           /\ TruthyString(o, "startTime") \/ TruthyString(o, "endTime")
        THEN [start |-> IF TruthyString(o, "startTime") THEN o.startTime
                        ELSE "undefined",
              end   |-> IF TruthyString(o, "endTime") THEN o.endTime
                        ELSE "undefined"]
        ELSE IF shiftType = "Half"
        THEN [start |-> "08:00", end |-> "13:00"]
        ELSE [start |-> "08:00", end |-> "17:00"]

getShiftTimes(person, dateStr, shiftType) ==
    LET idx == FindOverride(person.overrides, dateStr)
    IN  IF /\ idx > 0
           /\ TruthyString(person.overrides[idx], "startTime")
           /\ TruthyString(person.overrides[idx], "endTime")
        THEN [start |-> person.overrides[idx].startTime,
              end   |-> person.overrides[idx].endTime]
        ELSE IF shiftType = "Half"
        THEN [start |-> "08:00", end |-> "13:00"]
        ELSE [start |-> "08:00", end |-> "17:00"]

----------------------------------------------------------------------------
(* Inputs *)

FirstDate == <<2023, 12, 11>>

\* the dates FirstDate .. FirstDate + MaxDayOffset
ModelDates ==
    {dt \in {2023, 2024} \X (1..12) \X (1..31) :
        /\ dt[3] <= DaysInMonth(dt[1], dt[2])
        /\ DayNumber(dt) - DayNumber(FirstDate) \in 0..MaxDayOffset}

CycleStarts == {<<2024, 1, 1>>, <<2024, 2, 19>>}

StaffMember(id, cs, on, off, st, ov) ==
    [id |-> id, cycleStartDate |-> cs, patternOn |-> on, patternOff |-> off,
     shiftType |-> st, overrides |-> ov]

OverrideDates == {<<2024, 1, 5>>, <<2024, 1, 6>>}

ShiftDays == OverrideDates \cup {<<2024, 1, 7>>}

\* the override entries for date d: the three that handleQuickCycle writes
\* and entries of other shapes that a stored row may hold
OverridesFor(d) ==
    { [date |-> d, isDayOff |-> TRUE],
      [date |-> d, startTime |-> "08:00", endTime |-> "13:00",
       isDayOff |-> FALSE, shiftType |-> "Half"],
      [date |-> d, startTime |-> "08:00", endTime |-> "17:00",
       isDayOff |-> FALSE, shiftType |-> "Normal"],
      [date |-> d, isDayOff |-> TRUE, shiftType |-> "Half",
       startTime |-> "09:00", endTime |-> "14:00"],
      [date |-> d, shiftType |-> "Half"],
      [date |-> d, shiftType |-> "Night"],
      [date |-> d, startTime |-> "09:00", endTime |-> "14:00"],
      [date |-> d, startTime |-> "09:00"],
      [date |-> d, endTime |-> "14:00"],
      [date |-> d, isDayOff |-> FALSE] }

Overrides == UNION {OverridesFor(d) : d \in OverrideDates}

OverrideLists == UNION {[1..n -> Overrides] : n \in 0..MaxOverrides}

ShiftTypes == {"Normal", "Half"}

\* the shiftType argument of getShiftTimes: handleShiftClick passes
\* shiftState.shiftType, which is Normal, Half or Off
ShiftTypeArgs == {"Normal", "Half", "Off"}

NoCall == [fn |-> "none"]

\* no shift selected, no cell clicked yet, an empty edit form
NullId == <<"null", 0>>

NoShift == [staffId |-> NullId]

NoTrail == [staffId |-> NullId]

\* setEditForm({}): an object without fields, read as described for Member
EmptyForm == [name |-> "", overrides |-> <<>>]

\* localStorage.getItem('protea_staff_data') when there is no item: null
NoItem == [kind |-> "absent"]

\* an item that JSON.parse rejects
Corrupt == [kind |-> "corrupt"]

\* JSON.stringify(list)
stringify(list) == [kind |-> "json", value |-> list]

\* if (local): getItem returned a string
HasItem(local) == local.kind /= "absent"

\* JSON.parse(local) throws a SyntaxError
ParseThrows(local) == local.kind = "corrupt"

\* JSON.parse(local) of a string that stringify wrote
parse(local) == local.value

\* the application around the calculator at rest
AppIdle ==
    /\ isAdminLoggedIn = FALSE /\ isAdminOpen = FALSE
    /\ selectedShift = NoShift
    /\ supabase = TRUE
    /\ stored = NoItem /\ db = {} /\ saves = <<>>
    /\ trail = NoTrail
    /\ localStaff = <<>> /\ isAdding = FALSE /\ isEditing = NullId
    /\ editForm = EmptyForm /\ hasUnsavedChanges = FALSE
    /\ isSaving = FALSE /\ clock = 0
    /\ staffRef = <<1>> /\ localRef = <<>> /\ reading = <<>>
    /\ mounted = TRUE

----------------------------------------------------------------------------
(* Calls of the calculator *)

CallIsStaffWorking ==
    /\ \E i \in 1..Len(staff) :
          ret' = [fn |-> "isStaffWorking", person |-> i,
                  diffDays |-> DiffDays(staff[i], day),
                  dayInCycle |-> DayInCycle(staff[i], day),
                  value |-> isStaffWorking(staff[i], day)]
    /\ UNCHANGED <<supabase, tz, staff, day, appVars>>

CallCalculateShiftState ==
    /\ \E i \in 1..Len(staff) :
          ret' = [fn |-> "calculateShiftState", person |-> i,
                  value |-> calculateShiftState(staff[i], day)]
    /\ UNCHANGED <<supabase, tz, staff, day, appVars>>

CallGetShiftTimes ==
    /\ \E i \in 1..Len(staff), shiftType \in ShiftTypeArgs :
          ret' = [fn |-> "getShiftTimes", person |-> i,
                  shiftType |-> shiftType,
                  value |-> getShiftTimes(staff[i], day, shiftType)]
    /\ UNCHANGED <<supabase, tz, staff, day, appVars>>

----------------------------------------------------------------------------
(* The rotation: every pattern, cycle start and date, no overrides *)

InitCycle ==
    /\ tz \in TimeZones
    /\ \E cs \in CycleStarts, on \in 0..MaxPatternOn, off \in 0..MaxPatternOff :
          staff = <<StaffMember("s1", cs, on, off, "Normal", <<>>)>>
    /\ day \in ModelDates
    /\ ret = NoCall
    /\ AppIdle

NextCycle == CallIsStaffWorking

SpecCycle == InitCycle /\ [][NextCycle]_vars

(* The override resolution: every override list, the 5-on 2-off rotation *)

InitShift ==
    /\ tz \in TimeZones
    /\ \E st \in ShiftTypes, ov \in OverrideLists :
          staff = <<StaffMember("s1", <<2024, 1, 1>>, 5, 2, st, ov)>>
    /\ day \in ShiftDays
    /\ ret = NoCall
    /\ AppIdle

NextShift == CallCalculateShiftState \/ CallGetShiftTimes

SpecShift == InitShift /\ [][NextShift]_vars

----------------------------------------------------------------------------
(* Staff records of the application and rows of the backend table.  An id   *)
(* is <<kind, n>>: <<"uuid", n>> is a UUID the backend generated,           *)
(* <<"new", t>> is `new-${Date.now()}`, <<"imported", i>> is `imported-${i}` *)
(* and NoId is undefined.  A member always has the fields name and          *)
(* overrides, written as the value the code reads when the object lacks     *)
(* them: name "" (editForm.name || '', !editForm.name) and overrides <<>>   *)
(* (person.overrides || [], staff.overrides?.find).  Of the fields id,      *)
(* cycleStartDate, patternOn, patternOff and shiftType a member has those   *)
(* that the object has with a value; the names of those that are null are   *)
(* the set in its field nulls.                                              *)

Uuid(n) == <<"uuid", n>>

\* person.id of an object without id: undefined
NoId == <<"undefined", 0>>

\* person.id
IdOf(person) == IF "id" \in DOMAIN person THEN person.id ELSE NoId

\* the regular expression test of updateStaffData; undefined is tested as
\* the string 'undefined'
isValidUUID(id) == id[1] = "uuid"

Member(id, name, cs, on, off, st, ov) ==
    [id |-> id, name |-> name, cycleStartDate |-> cs, patternOn |-> on,
     patternOff |-> off, shiftType |-> st, overrides |-> ov]

\* the fields of a member that the form and the table may leave out
OptionalFields == {"cycleStartDate", "patternOn", "patternOff", "shiftType"}

\* the table column of a field
Column(f) ==
    CASE f = "cycleStartDate" -> "cycle_start_date"
      [] f = "patternOn" -> "pattern_on"
      [] f = "patternOff" -> "pattern_off"
      [] f = "shiftType" -> "shift_type"
      [] OTHER -> f

\* a list of objects made one by one (JSON.parse, map of rows, the lines of
\* a file): position i holds an object of its own
Fresh(list) == [i \in 1..Len(list) |-> i]

\* the first position that holds the object with the tag of position i;
\* positions with equal tags hold one object
Canonical(tags) ==
    [i \in 1..Len(tags) |->
        CHOOSE j \in 1..i : tags[j] = tags[i]
                            /\ \A k \in 1..(j - 1) : tags[k] /= tags[i]]

\* newStaff.indexOf(person) for the person at position i, counted from 0:
\* indexOf compares object references, refs[i] is the first position of
\* newStaff that holds the object of position i
IndexOf(refs, i) == refs[i] - 1

\* a payload row as JSON.stringify sends it: keys with the value undefined
\* are left out, and a key sent as null is a column that is NULL just as a
\* column that was not sent
ToRow(person, order) ==
    [c \in {"name", "overrides", "display_order"}
            \cup {Column(f) : f \in DOMAIN person \cap ({"id"} \cup OptionalFields)}
        |-> IF c = "display_order" THEN order
            ELSE person[CHOOSE f \in DOMAIN person : Column(f) = c]]

\* the mapping of a row to a StaffMember: a column that is NULL gives null
FromRow(item) ==
    LET present == {f \in OptionalFields : Column(f) \in DOMAIN item}
        base    == [f \in {"id", "name", "overrides"} \cup present
                        |-> item[Column(f)]]
    IN  IF present = OptionalFields THEN base
        ELSE ("nulls" :> (OptionalFields \ present)) @@ base

\* existingStaff.map(...) as upsert payload
UpdatePayload(newStaff, refs) ==
    {ToRow(newStaff[i], IndexOf(refs, i)) :
        i \in {j \in 1..Len(newStaff) : isValidUUID(IdOf(newStaff[j]))}}

\* positions of newStaff.filter(p => !isValidUUID(p.id))
NewPositions(newStaff) ==
    {j \in 1..Len(newStaff) : ~isValidUUID(IdOf(newStaff[j]))}

\* upsert(rows, onConflict id): rows with a known id are replaced
Upsert(table, rows) ==
    {r \in table : \A q \in rows : q.id /= r.id} \cup rows

\* one upsert statement cannot touch the same row twice: a payload with
\* two rows of one id is answered with an error
UpsertAccepted(newStaff) ==
    \A i, j \in 1..Len(newStaff) :
        (isValidUUID(IdOf(newStaff[i])) /\ IdOf(newStaff[i]) = IdOf(newStaff[j]))
            => i = j

\* the number the backend gives to the next generated id
NextUuid(table) ==
    1 + Cardinality({r \in table : isValidUUID(r.id)})

\* the row of the insert payload for position j, without id
InsertRow(newStaff, refs, j) ==
    LET row == ToRow(newStaff[j], IndexOf(refs, j))
    IN  [c \in DOMAIN row \ {"id"} |-> row[c]]

\* insert(rows without id): the backend generates the ids, in payload order
Insert(table, newStaff, refs) ==
    LET pos  == NewPositions(newStaff)
        rank(j) == Cardinality({k \in pos : k < j})
    IN  table \cup
        {("id" :> Uuid(NextUuid(table) + rank(j)))
            @@ InsertRow(newStaff, refs, j) : j \in pos}

\* select('*').order('display_order'): the orders the backend may return,
\* rows of equal display_order in any order
RECURSIVE Selections(_)
Selections(table) ==
    IF table = {} THEN {<<>>}
    ELSE LET first == {r \in table :
                          \A q \in table : r.display_order <= q.display_order}
         IN  UNION {{<<r>> \o rest : rest \in Selections(table \ {r})} :
                        r \in first}

MapRows(data) == [i \in 1..Len(data) |-> FromRow(data[i])]

\* the first request of updateStaffData(newStaff)
FirstRequest(newStaff) ==
    IF \E i \in 1..Len(newStaff) : isValidUUID(IdOf(newStaff[i])) THEN "upsert"
    ELSE IF NewPositions(newStaff) /= {} THEN "insert"
    ELSE "select"

\* a call of updateStaffData: who called, the list and the objects in it,
\* the request in flight (upsert, insert, select), response once the select
\* is answered with data, then done or failed. Without a client
\* supabase.from throws where the first request would leave: no request is
\* sent and the call has failed. removed keeps for the record the ids that
\* the staff list had before the call and newStaff has no more
SaveCall(src, newStaff, refs) ==
    [src |-> src, payload |-> newStaff, refs |-> refs,
     pc |-> IF supabase THEN FirstRequest(newStaff) ELSE "failed",
     data |-> <<>>,
     removed |-> {IdOf(staff[i]) : i \in 1..Len(staff)} \
                 {IdOf(newStaff[i]) : i \in 1..Len(newStaff)}]

----------------------------------------------------------------------------
(* RosterGrid: handleQuickCycle and handleShiftClick *)

\* new Date() of the session
Today == <<2024, 1, 5>>

\* isAdminLoggedIn ? adminDays : 30, and adminDays is 30
daysToShow == 30

\* the date columns of the grid
dates == generateDateRange(Today, daysToShow)

\* the columns whose cells are clicked
GridDays == {dates[1], dates[2]}

\* loading of useRosterData: true until fetchStaff has run to its end
loading == ret.pc /= "done"

\* calculateShiftState returns before it calls isStaffWorking
OverrideDecides(person, fullDateStr) ==
    LET idx == FindOverride(person.overrides, fullDateStr)
    IN  /\ idx > 0
        /\ \/ TruthyFlag(person.overrides[idx], "isDayOff")
           \/ TruthyString(person.overrides[idx], "shiftType")

\* the render of the grid calls calculateShiftState for every member and
\* every date column; isStaffWorking throws a TypeError on
\* staff.cycleStartDate.split when cycleStartDate is undefined or null
RenderThrows(list) ==
    \E i \in 1..Len(list) :
        /\ "cycleStartDate" \notin DOMAIN list[i]
        /\ \E k \in 1..Len(dates) : ~OverrideDecides(list[i], dates[k])

\* variant: a day off is followed by Half, the cycle never returns to Normal
NextState_NeverNormal(shiftState) ==
    IF shiftState.shiftType = "Half" THEN "Off" ELSE "Half"

\* the next state of the quick cycle
NextState(shiftState) ==
    IF shiftState.shiftType = "Half" THEN "Off"
    ELSE IF shiftState.shiftType = "Off" \/ ~shiftState.isWorking THEN "Normal"
    ELSE "Half"

\* currentOverrides.splice(idx, 1)
Splice(list, idx) ==
    [i \in 1..(Len(list) - 1) |-> IF i < idx THEN list[i] ELSE list[i + 1]]

\* variant: Normal always writes an override, whatever the base pattern
CycleOverrides_AlwaysWritesNormal(p, fullDateStr, shiftState) ==
    LET idx       == FindOverride(p.overrides, fullDateStr)
        nextState == NextState(shiftState)
        removed   == IF idx > 0 THEN Splice(p.overrides, idx) ELSE p.overrides
    IN  IF nextState = "Off"
        THEN Append(removed, [date |-> fullDateStr, isDayOff |-> TRUE])
        ELSE IF nextState = "Half"
        THEN Append(removed, [date |-> fullDateStr, startTime |-> "08:00",
                              endTime |-> "13:00", isDayOff |-> FALSE,
                              shiftType |-> "Half"])
        ELSE Append(removed, [date |-> fullDateStr, startTime |-> "08:00",
                              endTime |-> "17:00", isDayOff |-> FALSE,
                              shiftType |-> "Normal"])

\* variant: the old entry of the date is not removed
CycleOverrides_KeepsOldEntry(p, fullDateStr, shiftState) ==
    LET nextState == NextState(shiftState)
        removed   == p.overrides
    IN  IF nextState = "Off"
        THEN Append(removed, [date |-> fullDateStr, isDayOff |-> TRUE])
        ELSE IF nextState = "Half"
        THEN Append(removed, [date |-> fullDateStr, startTime |-> "08:00",
                              endTime |-> "13:00", isDayOff |-> FALSE,
                              shiftType |-> "Half"])
        ELSE IF ~isStaffWorking(p, fullDateStr)
        THEN Append(removed, [date |-> fullDateStr, startTime |-> "08:00",
                              endTime |-> "17:00", isDayOff |-> FALSE,
                              shiftType |-> "Normal"])
        ELSE removed

\* the overrides of the member p after the quick cycle on fullDateStr
CycleOverrides(p, fullDateStr, shiftState) ==
    LET idx       == FindOverride(p.overrides, fullDateStr)
        nextState == NextState(shiftState)
        removed   == IF idx > 0 THEN Splice(p.overrides, idx) ELSE p.overrides
    IN  IF nextState = "Off"
        THEN Append(removed, [date |-> fullDateStr, isDayOff |-> TRUE])
        ELSE IF nextState = "Half"
        THEN Append(removed, [date |-> fullDateStr, startTime |-> "08:00",
                              endTime |-> "13:00", isDayOff |-> FALSE,
                              shiftType |-> "Half"])
        ELSE IF ~isStaffWorking(p, fullDateStr)
        THEN Append(removed, [date |-> fullDateStr, startTime |-> "08:00",
                              endTime |-> "17:00", isDayOff |-> FALSE,
                              shiftType |-> "Normal"])
        ELSE removed

\* newStaff of handleQuickCycle
handleQuickCycle(list, person, fullDateStr, shiftState) ==
    [i \in 1..Len(list) |->
        IF IdOf(list[i]) /= IdOf(person) THEN list[i]
        ELSE [list[i] EXCEPT
                !.overrides = CycleOverrides(list[i], fullDateStr, shiftState)]]

\* the objects of newStaff of handleQuickCycle: map returns p itself for the
\* other members and a new object { ...p, overrides } for every position
\* with the id of the person
QuickCycleRefs(list, refs, person) ==
    Canonical([i \in 1..Len(list) |->
                  IF IdOf(list[i]) /= IdOf(person) THEN refs[i] ELSE -i])

\* the entries a member has for a date
EntriesFor(p, fullDateStr) ==
    SelectSeq(p.overrides, LAMBDA o : o.date = fullDateStr)

\* the history of the successive clicks of an administrator on one cell,
\* whatever the answers of the backend did to the list between them
TrailAfter(person, fullDateStr, shiftState, newStaff, i) ==
    LET step == [from    |-> shiftState,
                 next    |-> NextState(shiftState),
                 base    |-> isStaffWorking(person, fullDateStr),
                 to      |-> calculateShiftState(newStaff[i], fullDateStr),
                 entries |-> EntriesFor(newStaff[i], fullDateStr)]
    IN  IF trail.staffId = IdOf(person) /\ trail.date = fullDateStr
        THEN [trail EXCEPT !.steps = Append(@, step)]
        ELSE [staffId |-> IdOf(person), date |-> fullDateStr,
              before |-> EntriesFor(person, fullDateStr),
              steps |-> <<step>>]

\* the effect of AdminModal on [staffData, isOpen]
ModalEffect(newStaffData, refs) ==
    /\ localStaff' = newStaffData
    /\ localRef' = refs
    /\ hasUnsavedChanges' = FALSE

\* App renders the loader in place of RosterGrid while loading &&
\* staff.length === 0: the grid is unmounted and its state selectedShift
\* is lost
GridReplaced(list, isLoading) == isLoading /\ Len(list) = 0

\* setStaff(newStaff) and the render that follows, isLoading being the
\* value of loading in that render: nothing on a tree that is unmounted; a
\* render that throws unmounts the tree (there is no error boundary) and no
\* effect runs; otherwise the effect of the modal runs. newTrail is the
\* history of clicks that goes with the new list
setStaff(newStaff, refs, newTrail, isLoading) ==
    IF ~mounted
    THEN UNCHANGED <<staff, staffRef, mounted, trail, localStaff, localRef,
                     hasUnsavedChanges, selectedShift>>
    ELSE /\ staff' = newStaff
         /\ staffRef' = refs
         /\ trail' = newTrail
         /\ mounted' = ~RenderThrows(newStaff)
         /\ selectedShift' = IF GridReplaced(newStaff, isLoading) THEN NoShift
                             ELSE selectedShift
         /\ IF RenderThrows(newStaff)
            THEN UNCHANGED <<localStaff, localRef, hasUnsavedChanges>>
            ELSE ModalEffect(newStaff, refs)

\* the files chosen in the data tab: those being read and those read
Imports ==
    Len(reading) + Cardinality({k \in 1..Len(saves) : saves[k].src = "import"})

\* the requests that the backend answered with an error
Errors ==
    (IF ret.error THEN 1 ELSE 0)
        + Cardinality({k \in 1..Len(saves) :
                          supabase /\ saves[k].pc = "failed"})

\* the size of a session: the gestures that wrote the draft of the modal
\* (clock), the calls of updateStaffData started or about to start, the
\* files chosen, the error answers of the backend, and one each while
\* fetchStaff is under way, while the form holds a draft and while the
\* shift details are shown. The session takes another of these gestures
\* while its size is below MaxEffort
Effort ==
    clock + Len(saves) + Len(reading) + Imports + Errors
        + (IF loading THEN 1 ELSE 0)
        + (IF editForm /= EmptyForm THEN 1 ELSE 0)
        + (IF selectedShift /= NoShift THEN 1 ELSE 0)

\* the calls of updateStaffData that have not returned
InFlight == {k \in 1..Len(saves) : saves[k].pc \notin {"done", "failed"}}

\* the synchronous part of updateStaffData(newStaff): optimistic update,
\* local storage, then the first request leaves or, without a client, the
\* call throws
updateStaffData(src, newStaff, refs, newTrail) ==
    /\ setStaff(newStaff, refs, newTrail, loading)
    /\ stored' = stringify(newStaff)
    /\ saves' = Append(saves, SaveCall(src, newStaff, refs))
    /\ UNCHANGED db

\* a click of an administrator: handleQuickCycle and the synchronous part of
\* updateStaffData
QuickCycleClick(i, fullDateStr) ==
    LET person     == staff[i]
        shiftState == calculateShiftState(person, fullDateStr)
        newStaff   == handleQuickCycle(staff, person, fullDateStr, shiftState)
    IN  /\ Effort < MaxEffort
        /\ Len(saves) < MaxSaves
        /\ Cardinality(InFlight) < MaxInFlight
        /\ updateStaffData("quickCycle", newStaff,
                           QuickCycleRefs(staff, staffRef, person),
                           TrailAfter(person, fullDateStr, shiftState,
                                      newStaff, i))

\* a click of a visitor: the shift details of a working day are shown
DetailsClick(i, fullDateStr) ==
    LET person     == staff[i]
        shiftState == calculateShiftState(person, fullDateStr)
        times      == getShiftTimes(person, fullDateStr, shiftState.shiftType)
    IN  /\ IF ~shiftState.isWorking THEN UNCHANGED selectedShift
           ELSE /\ Effort < MaxEffort
                /\ selectedShift' =
                      [staffId |-> IdOf(person), dateStr |-> fullDateStr,
                       staffName |-> person.name,
                       shiftType |-> shiftState.shiftType,
                       label |-> shiftState.label,
                       start |-> times.start, end |-> times.end,
                       isDayOff |-> ~shiftState.isWorking]
        /\ UNCHANGED <<staff, staffRef, mounted, storeVars, trail, localStaff,
                       localRef, hasUnsavedChanges>>

\* variant: the quick cycle does not ask whether an administrator is logged in
handleShiftClick_AlwaysCycles(i, fullDateStr) ==
    /\ mounted /\ ~isAdminOpen /\ selectedShift = NoShift
    /\ QuickCycleClick(i, fullDateStr)
    /\ UNCHANGED <<supabase, tz, day, ret, isAdminLoggedIn, isAdminOpen,
                   isAdding, isEditing, editForm, isSaving, clock, reading>>

\* onClick of a roster cell. A cell is a td, which takes the pointer and
\* not the keyboard, and the cells lie under the layer of the admin modal
\* and under the layer of the shift details while these are shown
handleShiftClick(i, fullDateStr) ==
    /\ mounted /\ ~isAdminOpen /\ selectedShift = NoShift
    /\ IF isAdminLoggedIn THEN QuickCycleClick(i, fullDateStr)
       ELSE DetailsClick(i, fullDateStr)
    /\ UNCHANGED <<supabase, tz, day, ret, isAdminLoggedIn, isAdminOpen,
                   isAdding, isEditing, editForm, isSaving, clock, reading>>

\* setSelectedShift(null)
CloseShift ==
    /\ mounted /\ selectedShift /= NoShift
    /\ selectedShift' = NoShift
    /\ UNCHANGED <<supabase, tz, staff, day, ret, isAdminLoggedIn, isAdminOpen,
                   storeVars, trail, modalVars, staffRef, reading, mounted>>

----------------------------------------------------------------------------
(* App: the admin modal and the login *)

Usernames == {"shane", "Shane", "shawn"}

Passwords == {"admin123", "Admin123"}

\* username.toLowerCase()
toLowerCase(str) ==
    CASE str = "Shane" -> "shane"
      [] OTHER -> str

\* onLoginClick: setIsAdminOpen(true). The button of the header takes the
\* keyboard while the shift details or the modal are shown; the effect of
\* the modal runs when isOpen has changed
OpenAdmin ==
    /\ mounted
    /\ isAdminOpen' = TRUE
    /\ IF isAdminOpen
       THEN UNCHANGED <<localStaff, localRef, hasUnsavedChanges>>
       ELSE ModalEffect(staff, staffRef)
    /\ UNCHANGED <<supabase, tz, staff, day, ret, isAdminLoggedIn, selectedShift,
                   storeVars, trail, isAdding, isEditing, editForm,
                   isSaving, clock, staffRef, reading, mounted>>

\* onClose
CloseAdmin ==
    /\ mounted /\ isAdminOpen
    /\ isAdminOpen' = FALSE
    /\ ModalEffect(staff, staffRef)
    /\ UNCHANGED <<supabase, tz, staff, day, ret, isAdminLoggedIn, selectedShift,
                   storeVars, trail, isAdding, isEditing, editForm,
                   isSaving, clock, staffRef, reading, mounted>>

\* the condition of handleLogin
Credentials(username, password) ==
    toLowerCase(username) = "shane" /\ password = "admin123"

\* the login form is shown while nobody is logged in
handleLogin(username, password) ==
    /\ mounted /\ isAdminOpen /\ ~isAdminLoggedIn
    /\ isAdminLoggedIn' = Credentials(username, password)
    /\ UNCHANGED <<supabase, tz, staff, day, ret, isAdminOpen, selectedShift,
                   storeVars, trail, modalVars, staffRef, reading, mounted>>

\* onLogout
Logout ==
    /\ mounted /\ isAdminOpen /\ isAdminLoggedIn
    /\ isAdminLoggedIn' = FALSE
    /\ isAdminOpen' = FALSE
    /\ ModalEffect(staff, staffRef)
    /\ UNCHANGED <<supabase, tz, staff, day, ret, selectedShift, storeVars, trail,
                   isAdding, isEditing, editForm, isSaving, clock, staffRef,
                   reading, mounted>>

----------------------------------------------------------------------------
(* The backend and the rest of updateStaffData *)

SetSave(k, pc, data) ==
    saves' = [saves EXCEPT ![k].pc = pc, ![k].data = data]

\* handleSaveAllChanges after the await: finally setIsSaving(false)
AfterSave(k) ==
    isSaving' = IF saves[k].src = "saveAll" /\ mounted THEN FALSE ELSE isSaving

\* the backend applies the upsert and answers; the next request leaves
BackendUpsert(k) ==
    /\ saves[k].pc = "upsert"
    /\ UpsertAccepted(saves[k].payload)
    /\ db' = Upsert(db, UpdatePayload(saves[k].payload, saves[k].refs))
    /\ SetSave(k, IF NewPositions(saves[k].payload) /= {} THEN "insert"
                  ELSE "select", <<>>)
    /\ UNCHANGED <<supabase, tz, staff, day, ret, gridVars, stored, trail,
                   modalVars, staffRef, reading, mounted>>

\* the backend applies the insert and answers; the select leaves
BackendInsert(k) ==
    /\ saves[k].pc = "insert"
    /\ db' = Insert(db, saves[k].payload, saves[k].refs)
    /\ SetSave(k, "select", <<>>)
    /\ UNCHANGED <<supabase, tz, staff, day, ret, gridVars, stored, trail,
                   modalVars, staffRef, reading, mounted>>

\* the backend answers the select with the rows it has now
BackendSelect(k) ==
    /\ saves[k].pc = "select"
    /\ \E data \in Selections(db) : SetSave(k, "response", data)
    /\ UNCHANGED <<supabase, tz, staff, day, ret, gridVars, stored, db, trail,
                   modalVars, staffRef, reading, mounted>>

\* the backend answers a request with an error (the network, a constraint
\* of the table that a row does not meet): updateStaffData throws
BackendError(k) ==
    /\ saves[k].pc \in {"upsert", "insert", "select"}
    /\ SetSave(k, "failed", <<>>)
    /\ AfterSave(k)
    /\ UNCHANGED <<supabase, tz, staff, day, ret, gridVars, stored, db, trail,
                   localStaff, localRef, isAdding, isEditing, editForm,
                   hasUnsavedChanges, clock, staffRef, reading, mounted>>

\* the answer of the select arrives: setStaff(mappedStaff), local storage
ReceiveRefetch(k) ==
    /\ saves[k].pc = "response"
    /\ setStaff(MapRows(saves[k].data), Fresh(saves[k].data),
                trail, loading)
    /\ stored' = stringify(MapRows(saves[k].data))
    /\ SetSave(k, "done", <<>>)
    /\ AfterSave(k)
    /\ UNCHANGED <<supabase, tz, day, ret, isAdminLoggedIn, isAdminOpen, db,
                   isAdding, isEditing, editForm, clock, reading>>

----------------------------------------------------------------------------
(* useRosterData: the first state of staff and fetchStaff, which the effect *)
(* calls once after mount                                                   *)

InitialStaff ==
    << Member(Uuid(1), "Ann", <<2024, 1, 1>>, 5, 2, "Normal",
              <<[date |-> <<2024, 1, 7>>, isDayOff |-> TRUE]>>),
       Member(Uuid(2), "Ben", <<2024, 1, 2>>, 5, 2, "Half",
              <<[date |-> <<2024, 1, 6>>, startTime |-> "09:00",
                 endTime |-> "14:00"]>>) >>

InitialTable == {ToRow(InitialStaff[i], i - 1) : i \in 1..Len(InitialStaff)}

\* the exported client: TRUE when createClient returned one, FALSE when the
\* environment variables are missing or createClient threw (undefined)
Clients == BOOLEAN

\* the lists that a tab of the application may have written
StoredLists == {<<>>, InitialStaff, <<InitialStaff[2]>>}

\* what local storage may hold when the application is mounted
StorageItems == {NoItem, Corrupt} \cup {stringify(l) : l \in StoredLists}

\* what the staff table may hold
FetchTables == {{}, InitialTable, {ToRow(InitialStaff[1], 0)}}

\* the initializer of useState: local ? JSON.parse(local) : [], [] on a throw
InitialState(local) ==
    IF HasItem(local) /\ ~ParseThrows(local) THEN parse(local) ELSE <<>>

\* a call of fetchStaff: where it is (mount, select, response, done), the
\* answer of the select while it is on its way, how the promise ended, and
\* for the record of a call without client or with a failed select the
\* staff list and the item at the time the call ended
FetchCall(pc) ==
    [fn |-> "fetchStaff", pc |-> pc, error |-> FALSE, data |-> <<>>,
     before |-> <<>>, item |-> NoItem, outcome |-> "pending"]

\* what a path through fetchStaff does: setStaff(list) or no call of
\* setStaff, and how the promise ends
SetsStaff(list) == [set |-> TRUE, staff |-> list, outcome |-> "resolved"]

LeavesStaff == [set |-> FALSE, outcome |-> "resolved"]

\* variant: the catch block parses without a try of its own
FetchCatch_NoInnerTry(local) ==
    IF ~HasItem(local) THEN LeavesStaff
    ELSE IF ParseThrows(local)
         THEN [set |-> FALSE, outcome |-> "rejected"]
         ELSE SetsStaff(parse(local))

\* the catch block of fetchStaff: if (local) try { setStaff(JSON.parse(local)) }
\* catch (e) { }
FetchCatch(local) ==
    IF ~HasItem(local) THEN LeavesStaff
    ELSE IF ParseThrows(local)
         THEN LeavesStaff
         ELSE SetsStaff(parse(local))

\* the branch if (!supabase): the parse is inside the outer try, a throw
\* leads to the catch block
FetchNoClient(local) ==
    IF ~HasItem(local) THEN LeavesStaff
    ELSE IF ParseThrows(local) THEN FetchCatch(local)
         ELSE SetsStaff(parse(local))

\* after the await: if (error) throw error; if (data && data.length > 0)
\* setStaff(mappedStaff)
FetchResponse(call, local) ==
    IF call.error THEN FetchCatch(local)
    ELSE IF Len(call.data) > 0
         THEN SetsStaff(MapRows(call.data))
         ELSE LeavesStaff

\* the call ends with result r: setStaff if any, finally setLoading(false),
\* rendered together
FetchEnds(r) ==
    /\ IF r.set
       THEN setStaff(r.staff, Fresh(r.staff), trail, FALSE)
       ELSE UNCHANGED <<staff, staffRef, mounted, trail, localStaff, localRef,
                        hasUnsavedChanges, selectedShift>>
    /\ ret' = [ret EXCEPT !.pc = "done", !.data = <<>>,
                          !.before = IF ~supabase \/ ret.error THEN staff
                                     ELSE <<>>,
                          !.item = IF ~supabase \/ ret.error THEN stored
                                   ELSE NoItem,
                          !.outcome = r.outcome]

\* the effect calls fetchStaff: without client it ends at once, with a
\* client the select leaves
fetchStaff ==
    /\ ret.pc = "mount"
    /\ IF ~supabase THEN FetchEnds(FetchNoClient(stored))
       ELSE /\ ret' = [ret EXCEPT !.pc = "select"]
            /\ UNCHANGED <<staff, staffRef, mounted, trail, localStaff,
                           localRef, hasUnsavedChanges, selectedShift>>
    /\ UNCHANGED <<supabase, tz, day, isAdminLoggedIn, isAdminOpen, storeVars,
                   isAdding, isEditing, editForm, isSaving, clock, reading>>

\* the backend answers the select with the rows it has
FetchSelect ==
    /\ ret.pc = "select"
    /\ \E data \in Selections(db) :
          ret' = [ret EXCEPT !.pc = "response", !.data = data]
    /\ UNCHANGED <<supabase, tz, staff, day, appVars>>

\* the backend answers the select with an error
FetchError ==
    /\ ret.pc = "select"
    /\ ret' = [ret EXCEPT !.pc = "response", !.error = TRUE]
    /\ UNCHANGED <<supabase, tz, staff, day, appVars>>

\* the answer arrives and fetchStaff runs to its end
FetchReceive ==
    /\ ret.pc = "response"
    /\ FetchEnds(FetchResponse(ret, stored))
    /\ UNCHANGED <<supabase, tz, day, isAdminLoggedIn, isAdminOpen, storeVars,
                   isAdding, isEditing, editForm, isSaving, clock, reading>>

\* another tab writes its list, or the site data are cleared, while the
\* call is under way
StorageChange ==
    /\ ret.pc \in {"mount", "select", "response"}
    /\ stored' \in ({NoItem} \cup {stringify(l) : l \in StoredLists})
                      \ {stored}
    /\ UNCHANGED <<supabase, tz, staff, day, ret, gridVars, db, saves, trail,
                   modalVars, staffRef, reading, mounted>>

----------------------------------------------------------------------------
(* The roster with two members; the cells of the columns GridDays are    *)
(* clicked                                                                *)

\* the record of a fetchStaff that ended in the branch without client
FetchedNoClient(list, local) ==
    [FetchCall("done") EXCEPT !.before = list, !.item = local,
                              !.outcome = FetchNoClient(local).outcome]

\* the application is mounted with the list of the last session in local
\* storage and the effect has called fetchStaff: with a client its select
\* is under way, without a client it has run to its end and has set the
\* list of local storage again; the grid is shown (staff is not empty) and
\* takes clicks
InitApp ==
    /\ supabase \in Clients
    /\ tz = "Africa/Johannesburg"
    /\ day = Today
    /\ stored = stringify(InitialStaff)
    /\ staff = InitialState(stored)
    /\ ret = IF supabase THEN FetchCall("select")
             ELSE FetchedNoClient(staff, stored)
    /\ staffRef = Fresh(staff)
    /\ mounted = TRUE
    /\ db = InitialTable
    /\ saves = <<>>
    /\ reading = <<>>
    /\ trail = NoTrail
    /\ isAdminLoggedIn = FALSE /\ isAdminOpen = FALSE
    /\ selectedShift = NoShift
    /\ localStaff = staff /\ localRef = staffRef
    /\ isAdding = FALSE /\ isEditing = NullId
    /\ editForm = EmptyForm /\ hasUnsavedChanges = FALSE
    /\ isSaving = FALSE /\ clock = 0

----------------------------------------------------------------------------
(* AdminModal: the staff tab (add, edit, remove, save all) and the import *)
(* of the data tab. The tabs are one panel here: switching between them   *)
(* changes nothing else.                                                  *)

\* the number typed into the On input, read by parseInt (a new draft starts
\* with 5)
FormPatternOn == {0}

\* the number typed into the Off input (a new draft starts with 2)
FormPatternOff == {0}

\* the name typed into the Name input (a new draft starts without name)
FormNames == {"Cy"}

\* the date picked in the Cycle Start input
FormCycleStarts == {<<2024, 1, 3>>}

\* the panel of a logged-in administrator is shown
AdminPanel == mounted /\ isAdminOpen /\ isAdminLoggedIn

\* the rows of localStaff that are shown as edit form: isEditing === s.id
EditedRows == {i \in 1..Len(localStaff) : IdOf(localStaff[i]) = isEditing}

\* a form with inputs and a Save button is shown
FormShown == isAdding \/ EditedRows /= {}

\* { ...editForm, f: v }
WithField(form, f, v) ==
    LET rest == [g \in DOMAIN form \ {f, "nulls"} |-> form[g]]
        nulls == IF "nulls" \in DOMAIN form THEN form.nulls \ {f} ELSE {}
    IN  IF nulls = {} THEN (f :> v) @@ rest
        ELSE (f :> v) @@ ("nulls" :> nulls) @@ rest

\* an input of a form can be typed into: a form is shown, and the change
\* event comes when the value differs from the one the input shows
CanType(f, v) ==
    /\ AdminPanel /\ FormShown
    /\ Effort < MaxEffort /\ clock < MaxClock
    /\ IF f \in DOMAIN editForm THEN editForm[f] /= v ELSE TRUE

\* setEditForm({ ...editForm, f: v }); the clock has moved on
Typed(f, v) ==
    /\ editForm' = WithField(editForm, f, v)
    /\ clock' = clock + 1
    /\ UNCHANGED <<supabase, tz, staff, day, ret, gridVars, storeVars, trail,
                   localStaff, localRef, isAdding, isEditing,
                   hasUnsavedChanges, isSaving, staffRef, reading, mounted>>

\* the Add Staff button; Date.now() reads the clock
AddStaffClick ==
    /\ AdminPanel /\ ~isAdding
    /\ Effort < MaxEffort /\ clock < MaxClock
    /\ isAdding' = TRUE
    /\ editForm' = Member(<<"new", clock>>, "", Today, 5, 2, "Normal", <<>>)
    /\ clock' = clock + 1
    /\ UNCHANGED <<supabase, tz, staff, day, ret, gridVars, storeVars, trail,
                   localStaff, localRef, isEditing, hasUnsavedChanges,
                   isSaving, staffRef, reading, mounted>>

\* onChange of the Name input
SetName(name) ==
    /\ CanType("name", name)
    /\ Typed("name", name)

\* onChange of the On input: parseInt(e.target.value), unchecked
SetPatternOn(on) ==
    /\ CanType("patternOn", on)
    /\ Typed("patternOn", on)

\* onChange of the Off input: parseInt(e.target.value), unchecked
SetPatternOff(off) ==
    /\ CanType("patternOff", off)
    /\ Typed("patternOff", off)

\* onChange of the Cycle Start input
SetCycleStartDate(cs) ==
    /\ CanType("cycleStartDate", cs)
    /\ Typed("cycleStartDate", cs)

\* onChange of the shift select, which shows editForm.shiftType || 'Normal'
SetShiftType(st) ==
    /\ "shiftType" \in DOMAIN editForm \/ st /= "Normal"
    /\ CanType("shiftType", st)
    /\ Typed("shiftType", st)

\* newStaff of handleSaveStaff
SavedStaff ==
    IF isAdding THEN Append(localStaff, editForm)
    ELSE [i \in 1..Len(localStaff) |->
            IF IdOf(localStaff[i]) = IdOf(editForm) THEN editForm
            ELSE localStaff[i]]

\* the objects of newStaff of handleSaveStaff: editForm is an object that
\* localStaff does not hold; the map puts it at every position with its id
SavedRefs ==
    IF isAdding THEN Append(localRef, Len(localStaff) + 1)
    ELSE Canonical([i \in 1..Len(localStaff) |->
                       IF IdOf(localStaff[i]) = IdOf(editForm) THEN 0
                       ELSE localRef[i]])

\* the Save button of the add form or of the edited row
handleSaveStaff ==
    /\ AdminPanel /\ FormShown
    /\ IF editForm.name = ""
       THEN UNCHANGED <<localStaff, localRef, isAdding, isEditing, editForm,
                        hasUnsavedChanges>>
       ELSE /\ localStaff' = SavedStaff
            /\ localRef' = SavedRefs
            /\ hasUnsavedChanges' = TRUE
            /\ isAdding' = FALSE
            /\ isEditing' = NullId
            /\ editForm' = EmptyForm
    /\ UNCHANGED <<supabase, tz, staff, day, ret, gridVars, storeVars, trail,
                   isSaving, clock, staffRef, reading, mounted>>

\* the Cancel button of the add form: setIsAdding(false)
CancelAdd ==
    /\ AdminPanel /\ isAdding
    /\ isAdding' = FALSE
    /\ UNCHANGED <<supabase, tz, staff, day, ret, gridVars, storeVars, trail,
                   localStaff, localRef, isEditing, editForm,
                   hasUnsavedChanges, isSaving, clock, staffRef, reading,
                   mounted>>

\* the Edit button of row i, shown while the row is not edited
EditClick(i) ==
    /\ AdminPanel /\ IdOf(localStaff[i]) /= isEditing
    /\ IF editForm = EmptyForm THEN Effort < MaxEffort ELSE TRUE
    /\ isEditing' = IdOf(localStaff[i])
    /\ editForm' = localStaff[i]
    /\ UNCHANGED <<supabase, tz, staff, day, ret, gridVars, storeVars, trail,
                   localStaff, localRef, isAdding, hasUnsavedChanges,
                   isSaving, clock, staffRef, reading, mounted>>

\* the Cancel button of the edited row
CancelEdit ==
    /\ AdminPanel /\ EditedRows /= {}
    /\ isEditing' = NullId
    /\ editForm' = EmptyForm
    /\ UNCHANGED <<supabase, tz, staff, day, ret, gridVars, storeVars, trail,
                   localStaff, localRef, isAdding, hasUnsavedChanges,
                   isSaving, clock, staffRef, reading, mounted>>

\* the positions that localStaff.filter(s => s.id !== id) keeps
Kept(list, id) == {i \in 1..Len(list) : IdOf(list[i]) /= id}

\* the position in list of the n-th element that the filter keeps
KeptAt(list, id, n) ==
    CHOOSE i \in Kept(list, id) :
        Cardinality({j \in Kept(list, id) : j <= i}) = n

\* localStaff.filter(s => s.id !== id)
Filter(list, id) ==
    [n \in 1..Cardinality(Kept(list, id)) |-> list[KeptAt(list, id, n)]]

\* the objects of the filtered list
FilterRefs(list, refs, id) ==
    Canonical([n \in 1..Cardinality(Kept(list, id)) |->
                  refs[KeptAt(list, id, n)]])

\* the Remove button of row i, shown while the row is not edited, and the
\* answer to confirm('Remove staff member?'); the clock has moved on when
\* the list is written
handleDelete(i, confirmed) ==
    /\ AdminPanel /\ IdOf(localStaff[i]) /= isEditing
    /\ IF confirmed
       THEN /\ Effort < MaxEffort /\ clock < MaxClock
            /\ localStaff' = Filter(localStaff, IdOf(localStaff[i]))
            /\ localRef' = FilterRefs(localStaff, localRef, IdOf(localStaff[i]))
            /\ hasUnsavedChanges' = TRUE
            /\ clock' = clock + 1
       ELSE UNCHANGED <<localStaff, localRef, hasUnsavedChanges, clock>>
    /\ UNCHANGED <<supabase, tz, staff, day, ret, gridVars, storeVars, trail,
                   isAdding, isEditing, editForm, isSaving, staffRef,
                   reading, mounted>>

\* the Save All Changes button, disabled={!hasUnsavedChanges || isSaving}:
\* setIsSaving(true) and the synchronous part of onUpdateStaff(localStaff).
\* Without a client the await is rejected at once and finally runs
\* setIsSaving(false) on the mounted tree before any other event
handleSaveAllChanges ==
    /\ AdminPanel /\ hasUnsavedChanges /\ ~isSaving
    /\ Effort < MaxEffort
    /\ Len(saves) + Len(reading) < MaxAdminSaves
    /\ isSaving' = (supabase \/ RenderThrows(localStaff))
    /\ updateStaffData("saveAll", localStaff, localRef, NoTrail)
    /\ UNCHANGED <<supabase, tz, day, ret, isAdminLoggedIn, isAdminOpen,
                   isAdding, isEditing, editForm, clock, reading>>

\* the members read from a CSV file with one data line; parseInt of the
\* pattern columns is not checked
Imported(on, off) ==
    <<Member(<<"imported", 1>>, "Dee", Today, on, off, "Normal", <<>>)>>

\* the file input of the data tab: a FileReader starts to read the file
handleImport(on, off) ==
    /\ AdminPanel
    /\ Effort < MaxEffort
    /\ Len(saves) + Len(reading) < MaxAdminSaves
    /\ reading' = Append(reading, Imported(on, off))
    /\ UNCHANGED <<supabase, tz, staff, day, ret, gridVars, storeVars, trail,
                   modalVars, staffRef, mounted>>

\* reader.onload of the k-th reader: the file is read, whatever has happened
\* to the modal meanwhile, and updateStaffData(newStaff) is called
ReaderOnload(k) ==
    /\ updateStaffData("import", reading[k], Fresh(reading[k]), NoTrail)
    /\ reading' = [n \in 1..(Len(reading) - 1) |->
                      IF n < k THEN reading[n] ELSE reading[n + 1]]
    /\ UNCHANGED <<supabase, tz, day, ret, isAdminLoggedIn, isAdminOpen,
                   isAdding, isEditing, editForm, isSaving, clock>>

Backend ==
    \E k \in 1..Len(saves) :
        \/ BackendUpsert(k)
        \/ BackendInsert(k)
        \/ BackendSelect(k)
        \/ BackendError(k)
        \/ ReceiveRefetch(k)

\* App with RosterGrid and AdminModal: the clicks on the cells, the header,
\* the shift details, the modal of the administrator, the file readers, the
\* backend and the answer to the fetchStaff of the mount
Next ==
    \/ \E i \in 1..Len(staff), d \in GridDays : handleShiftClick(i, d)
    \/ CloseShift
    \/ OpenAdmin
    \/ CloseAdmin
    \/ \E u \in Usernames, p \in Passwords : handleLogin(u, p)
    \/ Logout
    \/ AddStaffClick
    \/ \E name \in FormNames : SetName(name)
    \/ \E on \in FormPatternOn : SetPatternOn(on)
    \/ \E off \in FormPatternOff : SetPatternOff(off)
    \/ \E cs \in FormCycleStarts : SetCycleStartDate(cs)
    \/ \E st \in ShiftTypes : SetShiftType(st)
    \/ handleSaveStaff
    \/ CancelAdd
    \/ \E i \in 1..Len(localStaff) : EditClick(i)
    \/ CancelEdit
    \/ \E i \in 1..Len(localStaff), confirmed \in BOOLEAN :
          handleDelete(i, confirmed)
    \/ handleSaveAllChanges
    \/ \E on \in FormPatternOn, off \in FormPatternOff : handleImport(on, off)
    \/ \E k \in 1..Len(reading) : ReaderOnload(k)
    \/ Backend
    \/ FetchSelect
    \/ FetchError
    \/ FetchReceive

Spec == InitApp /\ [][Next]_vars

----------------------------------------------------------------------------
(* fetchStaff alone: every client, item and table; another tab of the     *)
(* application, or the user who clears the site data, may change the item *)
(* meanwhile                                                               *)

\* the application is mounted: staff from local storage, fetchStaff not
\* yet called
InitFetch ==
    /\ supabase \in Clients
    /\ tz = "Africa/Johannesburg"
    /\ day = Today
    /\ stored \in StorageItems
    /\ staff = InitialState(stored)
    /\ staffRef = Fresh(staff)
    /\ mounted = TRUE
    /\ db \in FetchTables
    /\ ret = FetchCall("mount")
    /\ saves = <<>>
    /\ reading = <<>>
    /\ trail = NoTrail
    /\ isAdminLoggedIn = FALSE /\ isAdminOpen = FALSE
    /\ selectedShift = NoShift
    /\ localStaff = staff /\ localRef = staffRef
    /\ isAdding = FALSE /\ isEditing = NullId
    /\ editForm = EmptyForm /\ hasUnsavedChanges = FALSE
    /\ isSaving = FALSE /\ clock = 0

NextFetch ==
    \/ fetchStaff
    \/ FetchSelect
    \/ FetchError
    \/ FetchReceive
    \/ StorageChange

SpecFetch == InitFetch /\ [][NextFetch]_vars

----------------------------------------------------------------------------
(* Properties of the rotation, checked under SpecCycle *)

\* the staff member of the last call
Called == staff[ret.person]

CycleLength(person) == person.patternOn + person.patternOff

\* the number of calendar days from the cycle start to the target date
CalendarDiff(person, targetDateStr) ==
    DayNumber(targetDateStr) - DayNumber(person.cycleStartDate)

\* C1: for a cycle length L >= 1, isStaffWorking is true iff
\* dayInCycle < patternOn, where dayInCycle = ((diffDays mod L) + L) mod L
\* and diffDays is the calendar-day difference targetDate - cycleStartDate.
C1_WorkingIffDayInCycleBelowPatternOn ==
    (ret.fn = "isStaffWorking" /\ CycleLength(Called) >= 1) =>
        LET L          == CycleLength(Called)
            diffDays   == CalendarDiff(Called, day)
            dayInCycle == ((diffDays % L) + L) % L
        IN  ret.value = (dayInCycle < Called.patternOn)

\* C2: for every cycle length L >= 1 and every target date before, at or
\* after the cycle start, the dayInCycle that isStaffWorking computes lies
\* in [0, L); the dates of the model reach 3 cycles of 7 days on either side
\* of each cycle start.
C2_DayInCycleInRange ==
    (ret.fn = "isStaffWorking" /\ CycleLength(Called) >= 1) =>
        ret.dayInCycle \in 0..(CycleLength(Called) - 1)

\* a 3-on 4-off member asked about the date 3 cycles before the cycle start
C2_Witness ==
    /\ ret.fn = "isStaffWorking"
    /\ Called.patternOn = 3 /\ Called.patternOff = 4
    /\ CalendarDiff(Called, day) = -21
    /\ ret.diffDays < 0
    /\ ret.dayInCycle = 0

\* C3: with patternOn = 5, patternOff = 2 and cycleStartDate = 2024-01-01,
\* isStaffWorking is true for 2024-01-01..05 and 2023-12-25, false for
\* 2024-01-06..07, and has the same value for any two dates a multiple of
\* 7 days apart.
C3_FiveTwoRepeatsWithPeriodSeven ==
    ( /\ ret.fn = "isStaffWorking"
      /\ Called.cycleStartDate = <<2024, 1, 1>>
      /\ Called.patternOn = 5 /\ Called.patternOff = 2 ) =>
        /\ (day[1] = 2024 /\ day[2] = 1 /\ day[3] \in 1..5) => ret.value = TRUE
        /\ (day[1] = 2024 /\ day[2] = 1 /\ day[3] \in 6..7) => ret.value = FALSE
        /\ day = <<2023, 12, 25>> => ret.value = TRUE
        /\ \A d \in ModelDates :
              (DayNumber(d) - DayNumber(day)) % 7 = 0 =>
                  isStaffWorking(Called, d) = ret.value

\* C4: the diffDays that isStaffWorking computes is the number of calendar
\* days from cycleStartDate to targetDate, also when a local day of 23 or 25
\* hours lies between the two local midnights.
C4_DiffDaysIsCalendarDifference ==
    ret.fn = "isStaffWorking" => ret.diffDays = CalendarDiff(Called, day)

----------------------------------------------------------------------------
(* Properties of the override resolution, checked under SpecShift *)

\* position of the override found for the day of the last call, 0 if none
Found == FindOverride(Called.overrides, day)

FoundOverride == Called.overrides[Found]

Has(o, f) == f \in DOMAIN o

IsDayOffOverride(o) == Has(o, "isDayOff") /\ o.isDayOff = TRUE

\* C5: when the override found for the day has isDayOff = true,
\* calculateShiftState returns not working, Off, Dash, 'Day Off (Manual)',
\* whatever the pattern and whatever shiftType the same override carries.
C5_DayOffOverrideWins ==
    (ret.fn = "calculateShiftState" /\ Found > 0
        /\ IsDayOffOverride(FoundOverride)) =>
        ret.value = [isWorking |-> FALSE, shiftType |-> "Off",
                     visualType |-> "Dash", label |-> "Day Off (Manual)"]

\* a pattern working day whose override is a day off that also says Half
C5_Witness ==
    /\ ret.fn = "calculateShiftState"
    /\ Found > 0
    /\ IsDayOffOverride(FoundOverride)
    /\ Has(FoundOverride, "shiftType") /\ FoundOverride.shiftType = "Half"
    /\ isStaffWorking(Called, day)
    /\ ret.value.label = "Day Off (Manual)"

\* C6: when the override found for the day is not a day off and specifies a
\* shiftType, calculateShiftState returns working, whatever the pattern:
\* Half, Hollow, 'Half Shift (Manual)' for 'Half' and Normal, Solid,
\* 'Normal Shift (Manual)' for any other value.
C6_ShiftTypeOverrideWorks ==
    (ret.fn = "calculateShiftState" /\ Found > 0
        /\ ~IsDayOffOverride(FoundOverride)
        /\ Has(FoundOverride, "shiftType")) =>
        ret.value =
            IF FoundOverride.shiftType = "Half"
            THEN [isWorking |-> TRUE, shiftType |-> "Half",
                  visualType |-> "Hollow", label |-> "Half Shift (Manual)"]
            ELSE [isWorking |-> TRUE, shiftType |-> "Normal",
                  visualType |-> "Solid", label |-> "Normal Shift (Manual)"]

\* a pattern off-day whose override names a shift type that is neither
\* Half nor Normal
C6_Witness ==
    /\ ret.fn = "calculateShiftState"
    /\ Found > 0
    /\ ~Has(FoundOverride, "isDayOff")
    /\ Has(FoundOverride, "shiftType") /\ FoundOverride.shiftType = "Night"
    /\ ~isStaffWorking(Called, day)
    /\ ret.value.isWorking /\ ret.value.shiftType = "Normal"

\* C7: when no override exists for the day, calculateShiftState returns
\* not working, Off, Dash, 'Off' if isStaffWorking is false and working,
\* Normal, Solid, 'Normal Shift' if it is true; the member's default
\* shiftType does not change the result.
C7_NoOverrideFollowsPattern ==
    (ret.fn = "calculateShiftState" /\ Found = 0) =>
        ret.value =
            IF isStaffWorking(Called, day)
            THEN [isWorking |-> TRUE, shiftType |-> "Normal",
                  visualType |-> "Solid", label |-> "Normal Shift"]
            ELSE [isWorking |-> FALSE, shiftType |-> "Off",
                  visualType |-> "Dash", label |-> "Off"]

\* a member whose default shift type is Half, on a working day without an
\* override for it (but with one for another day)
C7_Witness ==
    /\ ret.fn = "calculateShiftState"
    /\ Found = 0 /\ Len(Called.overrides) > 0
    /\ Called.shiftType = "Half"
    /\ isStaffWorking(Called, day)
    /\ ret.value.shiftType = "Normal" /\ ret.value.label = "Normal Shift"

\* the member with another rotation
WithPattern(person, cs, on, off) ==
    [person EXCEPT !.cycleStartDate = cs, !.patternOn = on, !.patternOff = off]

\* the result of the last call is the same for every rotation
SameForEveryPattern ==
    \A cs \in CycleStarts, on \in 0..MaxPatternOn, off \in 0..MaxPatternOff :
        calculateShiftState(WithPattern(Called, cs, on, off), day) = ret.value

\* C8 as stated: whenever the override list has an entry for the day, of
\* any shape, the result of calculateShiftState does not depend on
\* cycleStartDate, patternOn and patternOff.
C8_AnyOverrideDecides ==
    (ret.fn = "calculateShiftState" /\ Found > 0) => SameForEveryPattern

\* C8 amended: whenever the override found for the day has isDayOff = true
\* or specifies a shiftType, the result of calculateShiftState does not
\* depend on cycleStartDate, patternOn and patternOff.
C8_DayOffOrShiftTypeOverrideDecides ==
    (ret.fn = "calculateShiftState" /\ Found > 0
        /\ (IsDayOffOverride(FoundOverride) \/ Has(FoundOverride, "shiftType")))
        => SameForEveryPattern

\* a Normal override on a pattern off-day: the result is working
C8_Witness ==
    /\ ret.fn = "calculateShiftState"
    /\ Found > 0
    /\ Has(FoundOverride, "shiftType") /\ FoundOverride.shiftType = "Normal"
    /\ Has(FoundOverride, "isDayOff") /\ FoundOverride.isDayOff = FALSE
    /\ ~isStaffWorking(Called, day)
    /\ ret.value.isWorking

\* C10: getShiftTimes returns the startTime and endTime of the override
\* found for dateStr when it carries both; otherwise (no override, or one
\* missing either time) 08:00-13:00 for the shiftType argument 'Half' and
\* 08:00-17:00 for any other.
C10_ShiftTimes ==
    ret.fn = "getShiftTimes" =>
        IF Found > 0 /\ Has(FoundOverride, "startTime")
                     /\ Has(FoundOverride, "endTime")
        THEN /\ ret.value.start = FoundOverride.startTime
             /\ ret.value.end = FoundOverride.endTime
        ELSE IF ret.shiftType = "Half"
        THEN ret.value = [start |-> "08:00", end |-> "13:00"]
        ELSE ret.value = [start |-> "08:00", end |-> "17:00"]

\* an override that carries only times, asked about with shiftType Half
C10_Witness ==
    /\ ret.fn = "getShiftTimes"
    /\ ret.shiftType = "Half"
    /\ Found > 0
    /\ DOMAIN FoundOverride = {"date", "startTime", "endTime"}
    /\ ret.value = [start |-> "09:00", end |-> "14:00"]

----------------------------------------------------------------------------
(* Properties of the quick cycle and the login, checked under Spec *)

Steps == IF trail = NoTrail THEN <<>> ELSE trail.steps

\* the three-way cycle over the effective state
CycleSuccessor(shiftState) ==
    CASE shiftState.isWorking /\ shiftState.shiftType = "Normal" -> "Half"
      [] shiftState.isWorking /\ shiftState.shiftType = "Half" -> "Off"
      [] ~shiftState.isWorking -> "Normal"

\* C11: the next state of the quick cycle is Half after an effective
\* Normal, Off after Half and Normal after Off or not working, and the cell
\* then shows that state; there is no other transition.
C11_ThreeWayCycle ==
    \A k \in 1..Len(Steps) :
        /\ Steps[k].next = CycleSuccessor(Steps[k].from)
        /\ Steps[k].to.shiftType = CycleSuccessor(Steps[k].from)

\* three clicks on one cell went through Half, Off and Normal
C11_Witness ==
    /\ Len(Steps) = 3
    /\ Steps[1].next = "Half" /\ Steps[2].next = "Off"
    /\ Steps[3].next = "Normal"

\* C12: after handleQuickCycle the clicked date has: for Off the entry
\* {date, isDayOff:true}; for Half the entry {date, 08:00, 13:00,
\* isDayOff:false, Half}; for Normal no entry when the base pattern is
\* working and the entry {date, 08:00, 17:00, isDayOff:false, Normal} when
\* it is an off-day.
C12_QuickCycleWrites ==
    \A k \in 1..Len(Steps) :
        Steps[k].entries =
            CASE Steps[k].next = "Off" ->
                    <<[date |-> trail.date, isDayOff |-> TRUE]>>
              [] Steps[k].next = "Half" ->
                    <<[date |-> trail.date, startTime |-> "08:00",
                       endTime |-> "13:00", isDayOff |-> FALSE,
                       shiftType |-> "Half"]>>
              [] Steps[k].next = "Normal" /\ Steps[k].base -> <<>>
              [] Steps[k].next = "Normal" /\ ~Steps[k].base ->
                    <<[date |-> trail.date, startTime |-> "08:00",
                       endTime |-> "17:00", isDayOff |-> FALSE,
                       shiftType |-> "Normal"]>>

\* a cell that had an entry is cycled to Normal on a pattern working day:
\* no entry is left
C12_Witness ==
    /\ Len(Steps) = 3
    /\ trail.before /= <<>>
    /\ Steps[3].next = "Normal" /\ Steps[3].base
    /\ Steps[3].entries = <<>>

NaturalNormal ==
    [isWorking |-> TRUE, shiftType |-> "Normal", visualType |-> "Solid",
     label |-> "Normal Shift"]

NaturalOff ==
    [isWorking |-> FALSE, shiftType |-> "Off", visualType |-> "Dash",
     label |-> "Off"]

\* C13: from a pattern working day without an override, three successive
\* quick cycles on the cell give Half, then Off, then the original state:
\* no override for the date and the natural Normal result. The three
\* clicks are successive clicks of the administrator on the cell, with
\* whatever the application itself did to the list between them.
C13_WorkingDayCycleReturns ==
    (Len(Steps) >= 3 /\ trail.before = <<>> /\ Steps[1].from = NaturalNormal)
        => /\ Steps[1].to.shiftType = "Half"
           /\ Steps[2].to.shiftType = "Off"
           /\ Steps[3].to = NaturalNormal
           /\ Steps[3].entries = <<>>

\* C14: from a pattern off-day without an override, the three quick cycles
\* on the cell go through Normal, Half and Off and end in a state whose
\* isWorking, shiftType and visualType are those of the natural state of
\* the date. The three clicks are successive clicks of the administrator
\* on the cell, with whatever the application itself did to the list
\* between them.
C14_OffDayCycleLooksNatural ==
    (Len(Steps) >= 3 /\ trail.before = <<>> /\ Steps[1].from = NaturalOff)
        => /\ Steps[1].to.shiftType = "Normal"
           /\ Steps[2].to.shiftType = "Half"
           /\ Steps[3].to.isWorking = NaturalOff.isWorking
           /\ Steps[3].to.shiftType = NaturalOff.shiftType
           /\ Steps[3].to.visualType = NaturalOff.visualType

\* C15: every staff member has at most one override for each date, after
\* any sequence of quick cycles, on any member and any date, from a list
\* that had at most one.
C15_OneOverridePerDate ==
    \A i \in 1..Len(staff) :
        \A a, b \in 1..Len(staff[i].overrides) :
            staff[i].overrides[a].date = staff[i].overrides[b].date => a = b

\* quick cycles on two dates of one member, two of them on the same date:
\* the member holds one entry for each of the two dates
C15_Witness ==
    /\ Len(Steps) >= 2
    /\ \E i \in 1..Len(staff) : \E d \in GridDays \ {trail.date} :
          /\ staff[i].id = trail.staffId
          /\ InitialStaff[i].id = trail.staffId
          /\ EntriesFor(InitialStaff[i], d) = <<>>
          /\ Len(EntriesFor(staff[i], d)) = 1
          /\ Len(EntriesFor(staff[i], trail.date)) = 1

\* C18: a click on a roster cell changes staff data only if
\* isAdminLoggedIn is true; isAdminLoggedIn becomes true only by
\* handleLogin with the username 'shane' in any letter case and the
\* password 'admin123'; logout makes it false again.
C18_QuickCycleAdminOnly ==
    [][ /\ ( /\ \E i \in 1..Len(staff), d \in GridDays :
                    handleShiftClick(i, d)
             /\ <<staff, stored, db, saves>>' /= <<staff, stored, db, saves>> )
            => isAdminLoggedIn
        /\ (~isAdminLoggedIn /\ isAdminLoggedIn')
            => \E u \in {"shane", "Shane"} : handleLogin(u, "admin123")
        /\ Logout => ~isAdminLoggedIn' ]_vars

\* after quick cycles and a logout, a visitor's click opened the shift
\* details and left the data alone
C18_Witness ==
    /\ Len(saves) > 0
    /\ ~isAdminLoggedIn
    /\ selectedShift /= NoShift
    /\ staff = saves[Len(saves)].payload

\* all calls of updateStaffData came from quick cycles and have returned
\* without error
AllSaved ==
    /\ Len(saves) >= 2
    /\ \A k \in 1..Len(saves) :
          saves[k].src = "quickCycle" /\ saves[k].pc = "done"

\* every write went to the member at position i
OnlyMember(i) ==
    \A k \in 1..Len(saves) : \A j \in 1..Len(InitialStaff) :
        j /= i => saves[k].payload[j] = InitialStaff[j]

\* C20: when quick-cycle saves on one staff member overlap and all have
\* completed, in whatever order the backend handled them, the local staff
\* state and the backend row both hold the later write.
C20_LaterWriteWins ==
    (AllSaved /\ \E i \in 1..Len(InitialStaff) : OnlyMember(i)) =>
        LET last == saves[Len(saves)].payload
        IN  /\ staff = last
            /\ {FromRow(r) : r \in db} = {last[j] : j \in 1..Len(last)}

----------------------------------------------------------------------------
(* The admin modal *)

\* C16: no staff record with patternOn + patternOff = 0 becomes part of the
\* staff list that the roster grid hands to the calculator: a zero-length
\* cycle typed into the add or edit form or read from a CSV file is
\* rejected.
C16_NoZeroLengthCycle ==
    \A i \in 1..Len(staff) :
        \/ PatternUndefined(staff[i])
        \/ PatternNumber(staff[i], "patternOn")
              + PatternNumber(staff[i], "patternOff") > 0

\* C17: after any sequence of operations in the admin modal the edited
\* staff list holds no two members with the same id.
C17_UniqueIds ==
    \A i, j \in 1..Len(localStaff) :
        IdOf(localStaff[i]) = IdOf(localStaff[j]) => i = j

\* C19: once Save All Changes has completed without error, every member
\* that the administrator had removed is absent from the backend table and
\* from the staff list set by the refetch after the save.
C19_DeletionPersisted ==
    \A k \in 1..Len(saves) :
        (saves[k].src = "saveAll" /\ saves[k].pc = "done") =>
            \A id \in saves[k].removed :
                /\ \A r \in db : r.id /= id
                /\ \A i \in 1..Len(staff) : IdOf(staff[i]) /= id

----------------------------------------------------------------------------
(* fetchStaff *)

\* the call of fetchStaff has ended
Fetched == ret.fn = "fetchStaff" /\ ret.pc = "done"

\* C21: when the client is undefined or the select of fetchStaff is
\* answered with an error, fetchStaff sets the staff list from the
\* local-storage item if there is one and JSON.parse accepts it, and leaves
\* the staff list as it was otherwise; the promise of fetchStaff is never
\* rejected, whatever happened.
C21_LocalStorageFallback ==
    Fetched =>
        /\ ret.outcome = "resolved"
        /\ (~supabase \/ ret.error) =>
              staff = IF HasItem(ret.item) /\ ~ParseThrows(ret.item)
                      THEN parse(ret.item)
                      ELSE ret.before

\* the select failed and the item held another list than the staff list
C21_Witness ==
    /\ Fetched /\ supabase /\ ret.error
    /\ HasItem(ret.item) /\ ~ParseThrows(ret.item)
    /\ parse(ret.item) /= ret.before
    /\ staff = parse(ret.item)

----------------------------------------------------------------------------
(* Several overrides of one date *)

\* the positions of the entries of the date
EntriesOn(overrides, dateStr) ==
    {i \in 1..Len(overrides) : overrides[i].date = dateStr}

\* the list without the entries of the date that follow the first one
WithoutLater(overrides, dateStr) ==
    LET RECURSIVE Keep(_)
        Keep(n) ==
            IF n = 0 THEN <<>>
            ELSE IF /\ overrides[n].date = dateStr
                    /\ \E j \in 1..(n - 1) : overrides[j].date = dateStr
                 THEN Keep(n - 1)
                 ELSE Append(Keep(n - 1), overrides[n])
    IN  Keep(Len(overrides))

\* the list with only the last entry of the date
OnlyLast(overrides, dateStr) ==
    LET last == CHOOSE i \in EntriesOn(overrides, dateStr) :
                    \A j \in EntriesOn(overrides, dateStr) : j <= i
    IN  <<overrides[last]>>

\* C22: when the override list of a member holds several entries of the
\* date asked for, calculateShiftState and getShiftTimes return what they
\* return for the list without the later entries of that date: the first
\* entry in list order decides, the later ones are ignored.
C22_FirstEntryWins ==
    (ret.fn \in {"calculateShiftState", "getShiftTimes"}
        /\ Cardinality(EntriesOn(Called.overrides, day)) > 1) =>
        LET first == [Called EXCEPT
                         !.overrides = WithoutLater(Called.overrides, day)]
            alone == [Called EXCEPT
                         !.overrides = <<Called.overrides[Found]>>]
        IN  /\ Found = CHOOSE i \in EntriesOn(Called.overrides, day) :
                          \A j \in EntriesOn(Called.overrides, day) : i <= j
            /\ ret.fn = "calculateShiftState" =>
                  /\ ret.value = calculateShiftState(first, day)
                  /\ ret.value = calculateShiftState(alone, day)
            /\ ret.fn = "getShiftTimes" =>
                  /\ ret.value = getShiftTimes(first, day, ret.shiftType)
                  /\ ret.value = getShiftTimes(alone, day, ret.shiftType)

\* two entries of the date, and the later one alone would give another
\* shift state
C22_Witness ==
    /\ ret.fn = "calculateShiftState"
    /\ Cardinality(EntriesOn(Called.overrides, day)) > 1
    /\ ret.value /=
          calculateShiftState(
              [Called EXCEPT !.overrides = OnlyLast(Called.overrides, day)],
              day)

====
